---- MODULE Spec2Model ----
(***************************************************************************)
(* A model of uparse (index.js), a parser combinator library.              *)
(*                                                                         *)
(* Strings are sequences of character codes.  A parser (the function a     *)
(* combinator returns) is the record of what its closure captured; Apply   *)
(* is the call of that function on a ParseState.  A call has one of four   *)
(* outcomes: it returns [value, state] ("match"), it returns null          *)
(* ("null"), it throws ("throw"), or it never returns ("hang").  Every     *)
(* outcome carries the trace of the parser functions that were called, in  *)
(* call order.                                                             *)
(***************************************************************************)
EXTENDS Integers, Sequences, FiniteSets, TLC

VARIABLES
    ctx,        \* the context object the grammar author owns (name -> parser)
    ctxAtBuild, \* history: the contents of ctx when `parser` was constructed
    parser,     \* the parser under test, as constructed by the combinators
    state,      \* the ParseState of the last call, or Null before any call
    result,     \* the outcome of the last call of `parser`, or NoCall
    ret,        \* what parse() returned or threw for the last call, or NoCall
    rp,         \* rep loop: the closure (parser, n, f) of the running call
    rstart,     \* rep loop: history, the state the call was entered with
    rpc,        \* rep loop: "idle", "loop", "returned", "thrown" or "hung"
    parseState, \* rep loop: the variable parseState (index.js:134)
    lastState,  \* rep loop: the variable lastState  (index.js:136)
    matches,    \* rep loop: the variable matches    (index.js:135)
    rret        \* rep loop: the value the call returned

vars == <<ctx, ctxAtBuild, parser, state, result, ret,
          rp, rstart, rpc, parseState, lastState, matches, rret>>

mainVars == <<ctx, ctxAtBuild, parser, state, result, ret>>
repVars == <<rp, rstart, rpc, parseState, lastState, matches, rret>>

-----------------------------------------------------------------------------
(* Bounds *)

MaxLen == 2

MaxMin == 2

MaxIter == 4

-----------------------------------------------------------------------------
(* Values *)

\* JavaScript null and undefined.
Null == [null |-> TRUE]

Undefined == [undefined |-> TRUE]

\* No call has been made (model bookkeeping, not a JavaScript value).
NoCall == [nocall |-> TRUE]

\* Character codes: '+' 43, '-' 45, '0' 48, '1' 49.
Plus == 43

Dash == 45

Zero == 48

One == 49

\* The characters of the inputs; patterns may also hold '-' and '1'.
Alphabet == {Plus, Zero}

RECURSIVE StringsUpTo(_)
StringsUpTo(n) ==
    IF n = 0 THEN {<<>>}
    ELSE LET shorter == StringsUpTo(n - 1)
         IN  shorter \cup {Append(s, ch) : s \in {t \in shorter : Len(t) = n - 1},
                                           ch \in Alphabet}

Strings == StringsUpTo(MaxLen)

Min(a, b) == IF a < b THEN a ELSE b

\* String.prototype.slice(from, to) for 0 <= from <= to: both ends are clipped
\* to the length of the string.
slice(s, from, to) ==
    LET lo == Min(from, Len(s))
        hi == Min(to, Len(s))
    IN  IF lo >= hi THEN <<>> ELSE SubSeq(s, lo + 1, hi)

-----------------------------------------------------------------------------
(* ParseState *)

ParseState(string, offset) == [string |-> string, offset |-> offset]

peek(ps, n) == slice(ps.string, ps.offset, ps.offset + n)

\* Mutant of read: the new state holds the rest of the string, from offset 0.
readRebased(ps, n) ==
    ParseState(slice(ps.string, ps.offset + n, Len(ps.string)), 0)

read(ps, n) == ParseState(ps.string, ps.offset + n)

isComplete(ps) == ps.offset = Len(ps.string)

-----------------------------------------------------------------------------
(* Formatters *)

\* function id (val) { return val }
id == [fn |-> "id"]

\* Two formatters a caller may pass: function (v) { return { wrap: v } } and
\* function (v) { return null }.
wrap == [fn |-> "wrap"]

constNull == [fn |-> "constNull"]

\* f = f || id
orId(f) == IF f = Undefined THEN id ELSE f

\* The call f(v).
Call(f, v) ==
    CASE f.fn = "id" -> v
      [] f.fn = "wrap" -> [wrap |-> v]
      [] f.fn = "constNull" -> Null

-----------------------------------------------------------------------------
(* Outcomes of calling a parser function *)

Match(v, ps, tr) == [kind |-> "match", val |-> v, state |-> ps, trace |-> tr]

NoMatch(tr) == [kind |-> "null", trace |-> tr]

Throw(e, tr) == [kind |-> "throw", error |-> e, trace |-> tr]

Hang(tr) == [kind |-> "hang", trace |-> tr]

\* The same outcome with the caller's trace put in front.
Traced(tr, r) == [r EXCEPT !.trace = tr \o r.trace]

Entry(p, ps) == [parser |-> p, offset |-> ps.offset]

-----------------------------------------------------------------------------
(* Combinators: what each closure captures *)

str(string, f) == [op |-> "str", string |-> string, f |-> orId(f)]

char(chars, f) == [op |-> "char", chars |-> chars, f |-> orId(f)]

seq(parsers, f) == [op |-> "seq", parsers |-> parsers, f |-> orId(f)]

rep(p, n, f) == [op |-> "rep", parser |-> p, n |-> n, f |-> orId(f)]

opt(p, f) == [op |-> "opt", parser |-> p, f |-> orId(f)]

alt(parsers, f) == [op |-> "alt", parsers |-> parsers, f |-> orId(f)]

\* The closure holds the context object by reference and the name: nothing
\* of the object's contents is read at construction.
ref(c, name) == [op |-> "ref", name |-> name]

-----------------------------------------------------------------------------
(* new RegExp('[' + chars + ']').test(chunk), for chars made of plain          *)
(* characters and '-' (no '^', ']' or '\').                                  *)

\* The class ranges of the pattern from position i on: an atom followed by '-'
\* and another atom is a range, any other atom stands for itself.
RECURSIVE ClassRanges(_, _)
ClassRanges(chars, i) ==
    IF i > Len(chars) THEN {}
    ELSE IF i + 2 <= Len(chars) /\ chars[i + 1] = Dash
         THEN {<<chars[i], chars[i + 2]>>} \cup ClassRanges(chars, i + 3)
         ELSE {<<chars[i], chars[i]>>} \cup ClassRanges(chars, i + 1)

\* new RegExp throws SyntaxError for a range out of order.
RegExpOk(chars) == \A r \in ClassRanges(chars, 1) : r[1] <= r[2]

\* regex.test(chunk): the class matches exactly one character, so the empty
\* chunk peeked at the end of the input never matches.
RegExpTest(chars, chunk) ==
    /\ Len(chunk) >= 1
    /\ \E r \in ClassRanges(chars, 1) : r[1] <= chunk[1] /\ chunk[1] <= r[2]

-----------------------------------------------------------------------------
(* Calling a parser *)

\* Apply(p, c, ps, stack) is the call p(ps) while the context object holds c.
\* stack is the set of <<name, offset>> of the ref calls in progress.
RECURSIVE Apply(_, _, _, _)
RECURSIVE seqReduce(_, _, _, _, _)
RECURSIVE repLoop(_, _, _, _, _, _)
RECURSIVE altLoop(_, _, _, _, _, _)

\* Mutant of strCall: a falsy formatted value is taken for a failed match.
strCallFalsy(p, ps) ==
    LET chunk == peek(ps, Len(p.string))
    IN  IF chunk = p.string /\ Call(p.f, [str |-> chunk]) # Null
        THEN Match(Call(p.f, [str |-> chunk]), read(ps, Len(p.string)), <<Entry(p, ps)>>)
        ELSE NoMatch(<<Entry(p, ps)>>)

strCall(p, ps) ==
    LET chunk == peek(ps, Len(p.string))
    IN  IF chunk = p.string
        THEN Match(Call(p.f, [str |-> chunk]), read(ps, Len(p.string)), <<Entry(p, ps)>>)
        ELSE NoMatch(<<Entry(p, ps)>>)

charCall(p, ps) ==
    LET chunk == peek(ps, 1)
    IN  IF ~RegExpOk(p.chars)
        THEN Throw("SyntaxError", <<Entry(p, ps)>>)
        ELSE IF RegExpTest(p.chars, chunk)
             THEN Match(Call(p.f, [char |-> chunk]), read(ps, 1), <<Entry(p, ps)>>)
             ELSE NoMatch(<<Entry(p, ps)>>)

\* The reducer of seq: acc is {success, state, matches}, plus the trace and
\* the outcome of a callee that did not return (which ends the reduce).
seqStep(acc, parsed) ==
    IF parsed.kind = "match"
    THEN [acc EXCEPT !.matches = Append(@, parsed.val), !.state = parsed.state,
                     !.trace = @ \o parsed.trace]
    ELSE [acc EXCEPT !.success = FALSE, !.trace = @ \o parsed.trace]

\* Mutant of seqReduce: the reducer lacks "if (!acc.success) { return acc }".
seqReduceEager(parsers, i, acc, c, stack) ==
    IF i > Len(parsers) THEN acc
    ELSE LET parsed == Apply(parsers[i], c, acc.state, stack)
         IN  IF parsed.kind \in {"throw", "hang"}
             THEN [acc EXCEPT !.abrupt = Traced(acc.trace, parsed)]
             ELSE seqReduce(parsers, i + 1, seqStep(acc, parsed), c, stack)

seqReduce(parsers, i, acc, c, stack) ==
    IF i > Len(parsers) THEN acc
    ELSE IF ~acc.success THEN seqReduce(parsers, i + 1, acc, c, stack)
    ELSE LET parsed == Apply(parsers[i], c, acc.state, stack)
         IN  IF parsed.kind \in {"throw", "hang"}
             THEN [acc EXCEPT !.abrupt = Traced(acc.trace, parsed)]
             ELSE seqReduce(parsers, i + 1, seqStep(acc, parsed), c, stack)

seqReturn(p, acc) ==
    IF acc.success
    THEN Match(Call(p.f, [seq |-> acc.matches]), acc.state, acc.trace)
    ELSE NoMatch(acc.trace)

seqCall(p, c, ps, stack) ==
    LET acc == seqReduce(p.parsers, 1,
                         [success |-> TRUE, state |-> ps, matches |-> <<>>,
                          trace |-> <<Entry(p, ps)>>, abrupt |-> Null],
                         c, stack)
    IN  IF acc.abrupt # Null THEN acc.abrupt ELSE seqReturn(p, acc)

\* The return statement of rep, after the loop.
repReturn(p, ms, last, tr) ==
    IF Len(ms) >= p.n
    THEN Match(Call(p.f, [rep |-> ms]), last, tr)
    ELSE NoMatch(tr)

\* The while loop of rep, entered with parseState = ps.  An iteration whose
\* match leaves parseState as it was is repeated for ever: the parsers are
\* functions of the state and of the context object, which no parser writes.
repLoop(p, c, ps, ms, tr, stack) ==
    LET parsed == Apply(p.parser, c, ps, stack)
    IN  CASE parsed.kind = "match" ->
               IF parsed.state = ps
               THEN Hang(tr \o parsed.trace)
               ELSE repLoop(p, c, parsed.state, Append(ms, parsed.val),
                            tr \o parsed.trace, stack)
          [] parsed.kind = "null" -> repReturn(p, ms, ps, tr \o parsed.trace)
          [] OTHER -> Traced(tr, parsed)

repCall(p, c, ps, stack) == repLoop(p, c, ps, <<>>, <<Entry(p, ps)>>, stack)

\* Mutant of optReturn: a failed inner parser fails the optional.
optReturnFail(p, parsed, ps, tr) ==
    IF parsed.kind = "match"
    THEN Match(Call(p.f, [opt |-> parsed.val]), parsed.state, tr)
    ELSE NoMatch(tr)

optReturn(p, parsed, ps, tr) ==
    IF parsed.kind = "match"
    THEN Match(Call(p.f, [opt |-> parsed.val]), parsed.state, tr)
    ELSE Match(Call(p.f, [opt |-> Null]), ps, tr)

optCall(p, c, ps, stack) ==
    LET parsed == Apply(p.parser, c, ps, stack)
    IN  IF parsed.kind \in {"throw", "hang"}
        THEN Traced(<<Entry(p, ps)>>, parsed)
        ELSE optReturn(p, parsed, ps, <<Entry(p, ps)>> \o parsed.trace)

\* Mutant of altLoop: the loop does not return at the first success, so the
\* last alternative that succeeds wins.
altLoopLast(p, i, c, ps, tr, stack) ==
    IF i > Len(p.parsers) THEN NoMatch(tr)
    ELSE LET res == Apply(p.parsers[i], c, ps, stack)
             rest == altLoop(p, i + 1, c, ps, tr \o res.trace, stack)
         IN  CASE res.kind = "match" ->
                    IF rest.kind = "null"
                    THEN Match(Call(p.f, [alt |-> res.val]), res.state, rest.trace)
                    ELSE rest
               [] res.kind = "null" -> rest
               [] OTHER -> Traced(tr, res)

\* The for loop of alt from index i (1-based here).
altLoop(p, i, c, ps, tr, stack) ==
    IF i > Len(p.parsers) THEN NoMatch(tr)
    ELSE LET res == Apply(p.parsers[i], c, ps, stack)
         IN  CASE res.kind = "match" ->
                    Match(Call(p.f, [alt |-> res.val]), res.state, tr \o res.trace)
               [] res.kind = "null" -> altLoop(p, i + 1, c, ps, tr \o res.trace, stack)
               [] OTHER -> Traced(tr, res)

altCall(p, c, ps, stack) == altLoop(p, 1, c, ps, <<Entry(p, ps)>>, stack)

\* Mutant of refCall: an unbound name is reported as a failed match.
refCallNull(p, c, ps, stack) ==
    IF c[p.name] = Undefined
    THEN NoMatch(<<Entry(p, ps)>>)
    ELSE IF <<p.name, ps.offset>> \in stack
         THEN Throw("RangeError", <<Entry(p, ps)>>)
         ELSE Traced(<<Entry(p, ps)>>,
                     Apply(c[p.name], c, ps, stack \cup {<<p.name, ps.offset>>}))

\* ctx[name](parseState): calling undefined throws TypeError; a call that is
\* already in progress with the same name at the same offset recurses until
\* the call stack overflows (RangeError).
refCall(p, c, ps, stack) ==
    IF c[p.name] = Undefined
    THEN Throw("TypeError", <<Entry(p, ps)>>)
    ELSE IF <<p.name, ps.offset>> \in stack
         THEN Throw("RangeError", <<Entry(p, ps)>>)
         ELSE Traced(<<Entry(p, ps)>>,
                     Apply(c[p.name], c, ps, stack \cup {<<p.name, ps.offset>>}))

Apply(p, c, ps, stack) ==
    CASE p.op = "str" -> strCall(p, ps)
      [] p.op = "char" -> charCall(p, ps)
      [] p.op = "seq" -> seqCall(p, c, ps, stack)
      [] p.op = "rep" -> repCall(p, c, ps, stack)
      [] p.op = "opt" -> optCall(p, c, ps, stack)
      [] p.op = "alt" -> altCall(p, c, ps, stack)
      [] p.op = "ref" -> refCall(p, c, ps, stack)

\* Mutant of parseReturn: the isComplete() test is missing.
parseReturnPrefix(res) ==
    IF res.kind = "match" THEN res.val ELSE Null

\* parse(parser, string): what it returns, or the outcome that is not a return.
parseReturn(res) ==
    IF res.kind = "match" /\ isComplete(res.state) THEN res.val ELSE Null

parse(p, c, string) ==
    LET res == Apply(p, c, ParseState(string, 0), {})
    IN  IF res.kind \in {"throw", "hang"}
        THEN [kind |-> res.kind]
        ELSE [kind |-> "return", val |-> parseReturn(res)]

-----------------------------------------------------------------------------
(* The grammars and inputs of the model *)

Names == {"a"}

digit == char(<<Zero, Dash, One>>, Undefined)

\* The leaves the composite parsers are built from.
CoreLeaves(c) ==
    {str(<<>>, Undefined), str(<<Zero>>, Undefined), digit} \cup
    {ref(c, name) : name \in Names}

Leaves(c) ==
    CoreLeaves(c) \cup
    {str(<<Plus>>, Undefined), str(<<Zero, Plus>>, Undefined),
     str(<<Zero>>, wrap), str(<<Zero>>, constNull),
     char(<<Plus>>, Undefined), char(<<One, Dash, Zero>>, Undefined),
     char(<<Zero, Dash, One>>, wrap)}

Lists(c) ==
    {<<>>} \cup {<<p>> : p \in CoreLeaves(c)} \cup
    {<<p, q>> : p \in CoreLeaves(c), q \in CoreLeaves(c)}

Composites(c) ==
    {seq(ps, Undefined) : ps \in Lists(c)} \cup
    {alt(ps, Undefined) : ps \in Lists(c)} \cup
    {rep(p, n, Undefined) : p \in CoreLeaves(c), n \in 0..MaxMin} \cup
    {opt(p, Undefined) : p \in CoreLeaves(c)} \cup
    {seq(<<str(<<Zero>>, Undefined), digit>>, wrap),
     alt(<<str(<<Plus>>, Undefined), digit>>, wrap),
     rep(digit, 1, wrap),
     opt(str(<<Zero>>, Undefined), wrap),
     opt(ref(c, "a"), wrap)}

\* Deeper grammars: the tests' addition, the README's number, an alternation
\* whose later branch is the longer one, repetitions of parsers that can
\* match without consuming, and formatted children.
Nested(c) ==
    {seq(<<digit, str(<<Plus>>, Undefined), digit>>, Undefined),
     alt(<<str(<<Zero>>, Undefined),
           seq(<<char(<<One>>, Undefined), rep(digit, 0, Undefined)>>, Undefined)>>,
         Undefined),
     alt(<<digit, rep(digit, 1, Undefined)>>, Undefined),
     rep(opt(str(<<Zero>>, Undefined), Undefined), 0, Undefined),
     rep(seq(<<>>, Undefined), 1, Undefined),
     rep(alt(<<str(<<Plus>>, Undefined), digit>>, Undefined), 1, Undefined),
     seq(<<opt(str(<<Plus>>, Undefined), Undefined), rep(digit, 1, wrap)>>, Undefined),
     opt(opt(ref(c, "a"), Undefined), Undefined)}

Parsers(c) == Leaves(c) \cup Composites(c) \cup Nested(c)

\* What the grammar author binds to a name: the tests' digit, and a
\* right-recursive and a left-recursive grammar through ref.
Bindings(c) ==
    {digit,
     seq(<<str(<<Zero>>, Undefined), opt(ref(c, "a"), Undefined)>>, Undefined),
     opt(ref(c, "a"), Undefined)}

Cursors == UNION {{ParseState(s, o) : o \in 0..Len(s)} : s \in Strings}

-----------------------------------------------------------------------------
(* The library's user: builds parsers, fills the context, calls *)

Init ==
    /\ ctx = [name \in Names |-> Undefined]
    /\ ctxAtBuild = [name \in Names |-> Undefined]
    /\ parser = Null
    /\ state = Null
    /\ result = NoCall
    /\ ret = NoCall
    /\ rp = Null
    /\ rstart = Null
    /\ rpc = "idle"
    /\ parseState = Null
    /\ lastState = Null
    /\ matches = <<>>
    /\ rret = NoCall

\* var p = P.str(...), P.seq([...]), P.ref(ctx, name), ...  The model follows
\* one parser from its construction on.
Build ==
    /\ parser = Null
    /\ \E p \in Parsers(ctx) :
        /\ parser' = p
        /\ ctxAtBuild' = ctx
        /\ state' = Null
        /\ result' = NoCall
        /\ ret' = NoCall
        /\ UNCHANGED <<ctx, repVars>>

\* ctx[name] = <a parser>.  The outcome of the call before belongs to the old
\* contents of ctx and is dropped.
Assign ==
    \E name \in Names, q \in Bindings(ctx) :
        /\ ctx' = [ctx EXCEPT ![name] = q]
        /\ state' = Null
        /\ result' = NoCall
        /\ ret' = NoCall
        /\ UNCHANGED <<ctxAtBuild, parser, repVars>>

\* Mutant of Registry: ctx[name] is read when ref() constructs the parser.
RegistryAtBuild(now, atBuild) == atBuild

\* The contents of the context object a call reads: those at the call.
Registry(now, atBuild) == now

\* parser(parseState), as an enclosing combinator calls it.
Invoke ==
    /\ parser # Null
    /\ \E ps \in Cursors :
        /\ state' = ps
        /\ result' = Apply(parser, Registry(ctx, ctxAtBuild), ps, {})
        /\ ret' = NoCall
    /\ UNCHANGED <<ctx, ctxAtBuild, parser, repVars>>

\* P.parse(parser, string)
Parse ==
    /\ parser # Null
    /\ \E string \in Strings :
        /\ state' = ParseState(string, 0)
        /\ result' = Apply(parser, Registry(ctx, ctxAtBuild), ParseState(string, 0), {})
        /\ ret' = parse(parser, Registry(ctx, ctxAtBuild), string)
    /\ UNCHANGED <<ctx, ctxAtBuild, parser, repVars>>

Next == Build \/ Assign \/ Invoke \/ Parse

Spec == Init /\ [][Next]_vars

-----------------------------------------------------------------------------
(* One call of a rep parser, an iteration of its while loop at a time *)

RepParsers(c) == {p \in Parsers(c) : p.op = "rep"}

\* The context is filled between calls, never during one; the outcome of the
\* call before is dropped.
RepAssign ==
    /\ rpc # "loop"
    /\ \E name \in Names, q \in Bindings(ctx) : ctx' = [ctx EXCEPT ![name] = q]
    /\ rp' = Null
    /\ rstart' = Null
    /\ rpc' = "idle"
    /\ parseState' = Null
    /\ lastState' = Null
    /\ matches' = <<>>
    /\ rret' = NoCall
    /\ UNCHANGED <<ctxAtBuild, parser, state, result, ret>>

\* The call enters the returned function: matches = [], lastState = null.
RepEnter ==
    /\ rpc # "loop"
    /\ \E p \in RepParsers(ctx), ps \in Cursors :
        /\ rp' = p
        /\ rstart' = ps
        /\ parseState' = ps
    /\ rpc' = "loop"
    /\ matches' = <<>>
    /\ lastState' = Null
    /\ rret' = NoCall
    /\ UNCHANGED mainVars

\* One iteration of while (parseState) { ... }.  MaxIter bounds the length of
\* matches in the model; the code has no such bound.
RepIter ==
    /\ rpc = "loop"
    /\ parseState # Null
    /\ Len(matches) < MaxIter
    /\ LET parsed == Apply(rp.parser, ctx, parseState, {})
       IN  /\ lastState' = parseState
           /\ matches' = IF parsed.kind = "match" THEN Append(matches, parsed.val)
                         ELSE matches
           /\ parseState' = CASE parsed.kind = "match" -> parsed.state
                              [] parsed.kind = "null" -> Null
                              [] OTHER -> parseState
           /\ rpc' = CASE parsed.kind = "throw" -> "thrown"
                       [] parsed.kind = "hang" -> "hung"
                       [] OTHER -> "loop"
    /\ UNCHANGED <<mainVars, rp, rstart, rret>>

\* The loop has ended (parseState is null): the return statement.
RepExit ==
    /\ rpc = "loop"
    /\ parseState = Null
    /\ rret' = repReturn(rp, matches, lastState, <<>>)
    /\ rpc' = "returned"
    /\ UNCHANGED <<mainVars, rp, rstart, parseState, lastState, matches>>

RepNext == RepAssign \/ RepEnter \/ RepIter \/ RepExit

SpecRep == Init /\ [][RepNext]_vars

-----------------------------------------------------------------------------
(* Properties *)

\* A call of `parser` has been made and its outcome is in `result`.
Called == result # NoCall

\* The call returned: a match or null.
Returned == Called /\ result.kind \in {"match", "null"}

\* The values of a list of matches.
Vals(outs) == [i \in 1..Len(outs) |-> outs[i].val]

\* The traces of a list of outcomes, one after the other.
RECURSIVE Traces(_)
Traces(outs) == IF outs = <<>> THEN <<>> ELSE Head(outs).trace \o Traces(Tail(outs))

\* C1: parse returns the parser's value when the parser matches from offset 0
\* and its cursor is at the end of the string; when the parser returns null,
\* or matches and leaves input unconsumed, parse returns null.
C1_ParseTotality ==
    ret # NoCall =>
        /\ (result.kind = "match" /\ result.state.offset = Len(state.string))
               => ret = [kind |-> "return", val |-> result.val]
        /\ (result.kind = "null"
               \/ (result.kind = "match" /\ result.state.offset # Len(state.string)))
               => ret = [kind |-> "return", val |-> Null]
        /\ (ret.kind = "return" /\ ret.val # Null)
               => (result.kind = "match" /\ result.state.offset = Len(state.string))

\* parse was called on a parser that matches a proper prefix of the string.
C1_Witness ==
    /\ ret # NoCall
    /\ result.kind = "match"
    /\ result.val # Null
    /\ result.state.offset < Len(state.string)
    /\ ret = [kind |-> "return", val |-> Null]

\* The outcomes of the parsers ps[i..] applied in list order, each started at
\* the state its predecessor returned (the first at ps0), up to and including
\* the first that does not match.
RECURSIVE Threaded(_, _, _, _)
Threaded(ps, i, c, ps0) ==
    IF i > Len(ps) THEN <<>>
    ELSE LET r == Apply(ps[i], c, ps0, {})
         IN  IF r.kind = "match" THEN <<r>> \o Threaded(ps, i + 1, c, r.state)
             ELSE <<r>>

AllMatch(ps, outs) ==
    Len(outs) = Len(ps) /\ \A i \in 1..Len(outs) : outs[i].kind = "match"

\* C3: seq(ps)(c) matches iff every parser of ps, applied in list order and
\* started where its predecessor stopped, matches; it then returns the list of
\* their values in that order with the last cursor (c and the empty list for
\* no parsers); at the first child that returns null it returns null with no
\* cursor, and the parsers after that child are not called.
C3_SeqThreads ==
    (Called /\ parser.op = "seq") =>
        LET outs == Threaded(parser.parsers, 1, ctx, state)
        IN  /\ (result.kind = "match") <=> AllMatch(parser.parsers, outs)
            /\ result.kind = "match" =>
                   /\ result.val = Call(parser.f, [seq |-> Vals(outs)])
                   /\ result.state = IF outs = <<>> THEN state
                                     ELSE outs[Len(outs)].state
            /\ (outs # <<>> /\ outs[Len(outs)].kind = "null") =>
                   result = NoMatch(result.trace)
            /\ result.trace = <<Entry(parser, state)>> \o Traces(outs)

\* A seq of two parsers whose first child failed: null, the second not called.
C3_Witness ==
    /\ Called
    /\ parser.op = "seq"
    /\ Len(parser.parsers) = 2
    /\ result.kind = "null"
    /\ Len(result.trace) = 2
    /\ Apply(parser.parsers[2], ctx, state, {}).kind = "match"

\* The outcomes of the parsers ps[i..] applied in list order, each to the same
\* state ps0, up to and including the first that does not return null.
RECURSIVE Tried(_, _, _, _)
Tried(ps, i, c, ps0) ==
    IF i > Len(ps) THEN <<>>
    ELSE LET r == Apply(ps[i], c, ps0, {})
         IN  IF r.kind = "null" THEN <<r>> \o Tried(ps, i + 1, c, ps0)
             ELSE <<r>>

\* C4: alt(ps)(c) applies the parsers in list order, each to c, and returns
\* the value (under the alt tag) and cursor of the first that matches; the
\* alternatives after it are not called, also when one of them would match
\* and consume more; when every alternative returns null it returns null.
C4_AltFirstMatch ==
    (Called /\ parser.op = "alt") =>
        LET outs == Tried(parser.parsers, 1, ctx, state)
            last == outs[Len(outs)]
        IN  /\ (outs # <<>> /\ last.kind = "match") =>
                   /\ result.kind = "match"
                   /\ result.val = Call(parser.f, [alt |-> last.val])
                   /\ result.state = last.state
            /\ (outs = <<>> \/ last.kind = "null") => result = NoMatch(result.trace)
            /\ result.trace = <<Entry(parser, state)>> \o Traces(outs)

\* Both alternatives match at the cursor and the later one consumes more: the
\* result is the earlier one's.
C4_Witness ==
    /\ Called
    /\ parser.op = "alt"
    /\ Len(parser.parsers) = 2
    /\ result.kind = "match"
    /\ LET first == Apply(parser.parsers[1], ctx, state, {})
           second == Apply(parser.parsers[2], ctx, state, {})
       IN  /\ first.kind = "match"
           /\ second.kind = "match"
           /\ second.state.offset > first.state.offset
           /\ result.state = first.state

\* C5: opt(p)(c) never returns null: when p(c) matches it returns p's value
\* under the opt tag with p's cursor, and when p(c) returns null it returns
\* opt: null with the cursor c.
C5_OptNeverFails ==
    (Called /\ parser.op = "opt") =>
        LET inner == Apply(parser.parser, ctx, state, {})
        IN  /\ result.kind # "null"
            /\ inner.kind = "match" =>
                   /\ result.kind = "match"
                   /\ result.val = Call(parser.f, [opt |-> inner.val])
                   /\ result.state = inner.state
            /\ inner.kind = "null" =>
                   /\ result.kind = "match"
                   /\ result.val = Call(parser.f, [opt |-> Null])
                   /\ result.state = state

\* An opt whose inner parser failed in the middle of the input.
C5_Witness ==
    /\ Called
    /\ parser.op = "opt"
    /\ state.offset > 0
    /\ Apply(parser.parser, ctx, state, {}).kind = "null"
    /\ result.kind = "match"

\* The outcome without its trace: what the caller of a parser can observe.
Observed(r) == [x \in DOMAIN r \ {"trace"} |-> r[x]]

\* C6: a parser made by ref(registry, name) reads the name at each call: the
\* call has the outcome of the parser bound to the name at that moment,
\* whatever was bound when ref was called, with the same value (no tag of its
\* own) and the same cursor, and the first parser it calls is that parser.
C6_RefLooksUpAtCall ==
    (Called /\ parser.op = "ref" /\ ctx[parser.name] # Undefined) =>
        /\ Observed(result) = Observed(Apply(ctx[parser.name], ctx, state, {}))
        /\ result.trace[1] = Entry(parser, state)
        /\ Len(result.trace) >= 2
        /\ result.trace[2] = Entry(ctx[parser.name], state)

\* A ref built while its name was bound to one parser, called after the name
\* was bound to another, matched, and not as the first parser would have.
C6_Witness ==
    /\ Called
    /\ parser.op = "ref"
    /\ ctxAtBuild[parser.name] # Undefined
    /\ ctx[parser.name] # ctxAtBuild[parser.name]
    /\ result.kind = "match"
    /\ Observed(Apply(ctxAtBuild[parser.name], ctx, state, {})) # Observed(result)

\* C7: a parser that matches at a cursor c with 0 <= c.offset <= length
\* returns a cursor over the same string whose offset is at least c.offset
\* and at most the length of the string.
C7_CursorInBounds ==
    (Called /\ result.kind = "match") =>
        /\ result.state.string = state.string
        /\ state.offset <= result.state.offset
        /\ result.state.offset <= Len(state.string)

\* A composite parser matched in the middle of the input and consumed up to
\* its end.
C7_Witness ==
    /\ Called
    /\ parser.op \in {"seq", "rep"}
    /\ result.kind = "match"
    /\ state.offset > 0
    /\ result.state.offset > state.offset
    /\ result.state.offset = Len(state.string)

\* The same combinator call without its formatter argument.
Unformatted(p) == [p EXCEPT !.f = id]

\* C8: a parser built with a formatter f and the same parser built without
\* one have the same kind of outcome on every cursor and, where they match,
\* the same next cursor; the value of the first is f applied to the value of
\* the second.
C8_FormatterTransparent ==
    (Called /\ parser.op # "ref" /\ parser.f # id) =>
        LET plain == Apply(Unformatted(parser), ctx, state, {})
        IN  /\ result.kind = plain.kind
            /\ result.kind = "match" =>
                   /\ result.state = plain.state
                   /\ result.val = Call(parser.f, plain.val)

\* A parser whose formatter returns null matched.
C8_Witness ==
    /\ Called
    /\ parser.op # "ref"
    /\ parser.f = constNull
    /\ result.kind = "match"
    /\ result.val = Null
    /\ result.state.offset > state.offset

\* A ref whose name is unbound is among the parsers the call invoked.
UnboundRefInvoked(tr) ==
    \E i \in 1..Len(tr) :
        tr[i].parser.op = "ref" /\ ctx[tr[i].parser.name] = Undefined

\* C10: a call that invokes a ref whose name is unbound throws TypeError: it
\* does not return, neither null nor a match, whatever opt, alt, rep or seq
\* encloses the ref, and parse throws as well; a call that invokes no such
\* ref does not throw TypeError.
C10_UnboundRefIsFatal ==
    Called =>
        /\ UnboundRefInvoked(result.trace)
               <=> (result.kind = "throw" /\ result.error = "TypeError")
        /\ (ret # NoCall /\ UnboundRefInvoked(result.trace)) => ret.kind = "throw"

\* parse of opt(ref) with the name unbound threw.
C10_Witness ==
    /\ ret # NoCall
    /\ parser.op = "opt"
    /\ parser.parser.op = "ref"
    /\ ctx[parser.parser.name] = Undefined
    /\ result.kind = "throw"
    /\ ret.kind = "throw"

\* The outcomes of q applied again and again, each application started at the
\* state the one before returned (the first at ps0), up to and including the
\* first that does not match, cut after `most` applications.
RECURSIVE Repeated(_, _, _, _)
Repeated(q, c, ps0, most) ==
    IF most = 0 THEN <<>>
    ELSE LET r == Apply(q, c, ps0, {})
         IN  IF r.kind = "match" THEN <<r>> \o Repeated(q, c, r.state, most - 1)
             ELSE <<r>>

IsMatch(r) == r.kind = "match"

\* The maximal greedy run: the matches of Repeated.  A run that ends has at
\* most one match for every character left and one that consumes nothing at
\* each offset, so a cut at MoreThanAny(n, ps) leaves a run longer than n and
\* than any run that ends.
MoreThanAny(n, ps) == n + 2 * (Len(ps.string) + 1)

GreedyRun(q, c, ps0, most) == SelectSeq(Repeated(q, c, ps0, most), IsMatch)

\* Every application of q in the run returned, with a match or with null.
RunReturns(q, c, ps0, most) ==
    \A i \in 1..Len(Repeated(q, c, ps0, most)) :
        Repeated(q, c, ps0, most)[i].kind \in {"match", "null"}

\* The statement of C2 for a call with outcome r of the rep parser p at ps.
RepGreedy(p, c, ps, r) ==
    LET run == GreedyRun(p.parser, c, ps, MoreThanAny(p.n, ps))
    IN  /\ (r.kind = "match") <=> (Len(run) >= p.n)
        /\ r.kind = "match" =>
               /\ r.val = Call(p.f, [rep |-> Vals(run)])
               /\ r.state = IF run = <<>> THEN ps ELSE run[Len(run)].state

\* C2: rep(p, n)(c) matches iff the maximal greedy run of consecutive matches
\* of p from c on has length >= n; it then returns the values of the whole
\* run, in order, and the cursor of the last match (c for the empty run).
\* Stated for every call in which each application of p returns.
C2_RepGreedy ==
    (/\ Called
     /\ parser.op = "rep"
     /\ RunReturns(parser.parser, ctx, state, MoreThanAny(parser.n, state)))
        => RepGreedy(parser, ctx, state, result)

\* What holds of the code: the statement of C2 for the calls that return.
RepGreedyWhenLoopEnds ==
    (Returned /\ parser.op = "rep") => RepGreedy(parser, ctx, state, result)

\* A rep with a minimum of at least 1 returned the two matches of its run,
\* after the attempt that failed.
RepGreedyReached ==
    /\ Returned
    /\ parser.op = "rep"
    /\ parser.n >= 1
    /\ result.kind = "match"
    /\ Len(result.trace) > Len(GreedyRun(parser.parser, ctx, state, MaxLen + 1)) + 1
    /\ result.state.offset = state.offset + 2

\* C9: a call of rep(p, n) terminates also when p matches without consuming:
\* an iteration of the loop whose match leaves parseState where it was ends
\* the loop, so that p is not applied again at the same offset.
C9_ZeroConsumptionStops ==
    [][(rpc = "loop" /\ parseState # Null /\ rpc' = "loop")
           => parseState' # parseState]_vars

\* The loop of RepIter and RepExit computes what repLoop does.
RepLoopAgrees ==
    rpc # "idle" =>
        LET whole == Apply(rp, ctx, rstart, {})
        IN  /\ rpc = "returned" => Observed(rret) = Observed(whole)
            /\ rpc = "thrown" => whole.kind = "throw"
            /\ rpc = "hung" => whole.kind = "hang"
            /\ (rpc = "loop" /\ Len(matches) > Len(rstart.string) + 1)
                   => whole.kind = "hang"

====
